---- MODULE Spec2Model ----
(***************************************************************************)
(* DataDelta (src/src/datadelta/datadelta.py): comparison of two pandas    *)
(* dataframes sharing a primary key.                                       *)
(*                                                                         *)
(* A dataframe is a record [cols, rows]: cols is the ordered list of       *)
(* column names, rows the ordered list of rows, each row a function from   *)
(* the column names to cell values.  A column name is a Python str,        *)
(* modelled as the sequence of its characters, so that concatenation,      *)
(* ordering and the substring test are computed and not looked up.         *)
(* A cell is a number, a text or the missing value NaN.                    *)
(***************************************************************************)
EXTENDS Integers, Sequences, FiniteSets, TLC

VARIABLES old_df, new_df, primary_key, column_subset, pc, result, fs, io

vars == <<old_df, new_df, primary_key, column_subset, pc, result, fs, io>>

(***************************************************************************)
(* Bounds of the model.                                                    *)
(***************************************************************************)
\* rows per table when both tables have the columns A, B
MaxRows == 2
\* rows per table when the column lists of the tables vary
MaxRowsWide == 1
\* columns of the table with many columns
ManyCols == 101

\* the number of rows of the tables with the columns A, B, C
ChgRows == 2

\* the largest number of columns of a table whose column orders are enumerated
MaxPermutedCols == 3

(***************************************************************************)
(* Cell values.                                                            *)
(***************************************************************************)
NaN == [k |-> "nan", v |-> 0]
Num(n) == [k |-> "num", v |-> n]
\* a text cell; text number 0 is the text "na", text number 1 another text
Text(i) == [k |-> "str", v |-> i]
\* the literal the shared views put in place of a missing value
NA_FILL == Text(0)

IsNaN(x) == x.k = "nan"

\* Python None, for an optional column subset and an optional dataframe
NoSubset == [given |-> FALSE, cols |-> <<>>]
Subset(cs) == [given |-> TRUE, cols |-> cs]
NoneDf == [is_none |-> TRUE, cols |-> <<>>, rows |-> <<>>]

\* a call that raised, and a call that returned
Raised(e) == [exc |-> e]
Returned(x) == [exc |-> "none", ret |-> x]
IsRaised(r) == r.exc # "none"

(***************************************************************************)
(* Generic helpers on sequences.                                           *)
(***************************************************************************)
Range(s) == {s[i] : i \in 1..Len(s)}

Min(a, b) == IF a < b THEN a ELSE b

\* the subsequence of s at the indexes of keep(i), in order
RECURSIVE FilterIdx(_, _, _)
FilterIdx(s, keep, i) ==
    IF i > Len(s) THEN <<>>
    ELSE (IF keep[i] THEN <<s[i]>> ELSE <<>>) \o FilterIdx(s, keep, i + 1)

Filter(s, keep) == FilterIdx(s, keep, 1)

\* all orderings of a finite set, as sequences without repetition
Orderings(S) ==
    {s \in [1..Cardinality(S) -> S] : \A i, j \in 1..Cardinality(S) : s[i] = s[j] => i = j}

(***************************************************************************)
(* Python str: ordering and substring test on character sequences.         *)
(***************************************************************************)
\* ord() of the characters that occur in the column names of the model
Ord(ch) ==
    CASE ch = "A" -> 65 [] ch = "B" -> 66 [] ch = "C" -> 67 [] ch = "D" -> 68
      [] ch = "E" -> 69 [] ch = "L" -> 76 [] ch = "N" -> 78 [] ch = "O" -> 79
      [] ch = "W" -> 87 [] ch = "_" -> 95
      [] ch = "0" -> 48 [] ch = "1" -> 49 [] ch = "2" -> 50 [] ch = "3" -> 51
      [] ch = "4" -> 52 [] ch = "5" -> 53 [] ch = "6" -> 54 [] ch = "7" -> 55
      [] ch = "8" -> 56 [] ch = "9" -> 57

\* s < t for Python str
RECURSIVE StrLess(_, _)
StrLess(s, t) ==
    IF t = <<>> THEN FALSE
    ELSE IF s = <<>> THEN TRUE
    ELSE IF Ord(Head(s)) # Ord(Head(t)) THEN Ord(Head(s)) < Ord(Head(t))
    ELSE StrLess(Tail(s), Tail(t))

\* sorted(names): the names ascending in the order of Python str
SortNames(S) ==
    LET n == Cardinality(S)
        rank == [x \in S |-> Cardinality({y \in S : StrLess(y, x)})] @@ <<>>
    IN  SubSeq([i \in 1..n |-> CHOOSE x \in S : rank[x] = i - 1], 1, n)

\* needle in hay for Python str
StrContains(hay, needle) ==
    \E i \in 0..(Len(hay) - Len(needle)) :
        \A j \in 1..Len(needle) : hay[i + j] = needle[j]

(***************************************************************************)
(* pandas primitives.                                                      *)
(***************************************************************************)
ColSet(df) == Range(df.cols)

\* DataFrame.empty: some axis has length 0
IsEmpty(df) == Len(df.rows) = 0 \/ Len(df.cols) = 0

\* the column c as the list of its cells
Series(df, c) == [i \in 1..Len(df.rows) |-> df.rows[i][c]]

\* df.loc[keep, cols]: the rows selected by the boolean list keep, restricted
\* to the columns cols in that order
Loc(df, keep, cols) ==
    LET kept == Filter(df.rows, keep)
    IN  [cols |-> cols,
         rows |-> [i \in 1..Len(kept) |-> [c \in Range(cols) |-> kept[i][c]]]]

\* a <= b in the order sort_values uses: numbers ascending, NaN last
KeyLE(a, b) ==
    IF IsNaN(b) THEN TRUE
    ELSE IF IsNaN(a) THEN FALSE
    ELSE a.v <= b.v

\* r put into the sorted list s behind every row whose key is <= its key
RECURSIVE InsertRow(_, _, _)
InsertRow(s, r, c) ==
    IF s = <<>> THEN <<r>>
    ELSE IF KeyLE(Head(s)[c], r[c]) THEN <<Head(s)>> \o InsertRow(Tail(s), r, c)
    ELSE <<r>> \o s

RECURSIVE SortRows(_, _)
SortRows(rows, c) ==
    IF rows = <<>> THEN <<>>
    ELSE InsertRow(SortRows(SubSeq(rows, 1, Len(rows) - 1), c), rows[Len(rows)], c)

\* variant: the rows are left in their input order
SortValuesInputOrder(df, c) == df

\* df.sort_values(c).reset_index(drop=True): rows ascending in c, equal keys in
\* their input order, rows re-numbered from the first
SortValues(df, c) == [df EXCEPT !.rows = SortRows(df.rows, c)]

\* df.fillna(x): every missing cell replaced by x
FillNa(df, x) ==
    [df EXCEPT !.rows =
        [i \in 1..Len(df.rows) |->
            [c \in ColSet(df) |-> IF IsNaN(df.rows[i][c]) THEN x ELSE df.rows[i][c]]]]

\* df.dtypes[c]: the declared type of a column, as pandas infers it from the
\* cells: text makes object, a missing number makes float64, a column without
\* cells is object
Dtype(df, c) ==
    IF Len(df.rows) = 0 THEN "object"
    ELSE IF \E i \in 1..Len(df.rows) : df.rows[i][c].k = "str" THEN "object"
    ELSE IF \E i \in 1..Len(df.rows) : IsNaN(df.rows[i][c]) THEN "float64"
    ELSE "int64"

\* set(df[c]): iterating a numeric column boxes every cell into a new Python
\* object; a NaN object is equal to no other object, so each missing cell is an
\* element of its own (tag tells the two iterated columns apart)
PySet(df, c, tag) ==
    {IF IsNaN(df.rows[i][c]) THEN [k |-> "nan", v |-> 10 * tag + i] ELSE df.rows[i][c] :
        i \in 1..Len(df.rows)}

\* Series.isin(values): a missing cell matches only a missing value
IsIn(df, c, values) ==
    [i \in 1..Len(df.rows) |->
        IF IsNaN(df.rows[i][c]) THEN \E x \in values : x.k = "nan"
        ELSE df.rows[i][c] \in values]

\* a != b on cells of two aligned frames
CellNE(a, b) == IsNaN(a) \/ IsNaN(b) \/ a # b

\* old_df.equals(new_df): same labels in the same order, same declared types,
\* same cells, two missing cells at the same place counting as equal
Equals(a, b) ==
    /\ a.cols = b.cols
    /\ Len(a.rows) = Len(b.rows)
    /\ \A c \in ColSet(a) : Dtype(a, c) = Dtype(b, c)
    /\ a.rows = b.rows

\* np.around(100 * n / d, 1) in tenths of a percent, halves to the even digit
RoundPct(n, d) ==
    LET q == (1000 * n) \div d
        r == (1000 * n) % d
    IN  IF 2 * r < d THEN q
        ELSE IF 2 * r > d THEN q + 1
        ELSE IF q % 2 = 0 THEN q ELSE q + 1

(***************************************************************************)
(* get_df_summary                                                          *)
(***************************************************************************)
\* input_df[primary_key].value_counts().max() == 1: value_counts leaves the
\* missing keys out, and the maximum of no count at all is NaN, not 1
IsPrimaryKeyUnique(df, pk) ==
    LET keys == {df.rows[i][pk] : i \in {j \in 1..Len(df.rows) : ~IsNaN(df.rows[j][pk])}}
        count(x) == Cardinality({i \in 1..Len(df.rows) : df.rows[i][pk] = x})
    IN  keys # {} /\ \A x \in keys : count(x) = 1

NValid(df, c) == Cardinality({i \in 1..Len(df.rows) : ~IsNaN(df.rows[i][c])})

\* one row of the summary table
SummaryRow(df, c) ==
    [column_names |-> c,
     n_valid_records |-> NValid(df, c),
     prop_valid_records |-> RoundPct(NValid(df, c), Len(df.rows)),
     datatype |-> Dtype(df, c)]

\* n_valid_records descending, then column_names ascending
SummaryLess(a, b) ==
    \/ a.n_valid_records > b.n_valid_records
    \/ a.n_valid_records = b.n_valid_records /\ StrLess(a.column_names, b.column_names)

\* df_summary.sort_values(["n_valid_records", "column_names"], ...): every row
\* goes to the place that the number of rows before it in the order gives
SortSummary(rows) ==
    LET n == Len(rows)
        rank == SubSeq([i \in 1..n |->
                           Cardinality({j \in 1..n : SummaryLess(rows[j], rows[i])})], 1, n)
    IN  SubSeq([k \in 1..n |-> rows[CHOOSE i \in 1..n : rank[i] = k - 1]], 1, n)

\* lines 37-76: the report of a table that has rows and columns
DfSummaryReport(input_df, pk, subset, max_cols) ==
    LET all == SubSeq([i \in 1..Len(input_df.cols) |->
                          SummaryRow(input_df, input_df.cols[i])], 1, Len(input_df.cols))
        sorted == SortSummary(all)
        df_summary ==
            IF subset.given
            THEN Filter(sorted, [i \in 1..Len(sorted) |->
                            sorted[i].column_names \in {pk} \cup Range(subset.cols)])
            ELSE sorted
    IN  Returned([number_of_records |-> Len(input_df.rows),
                  number_of_columns |-> Len(input_df.cols),
                  primary_key |-> pk,
                  is_primary_key_unique |-> IsPrimaryKeyUnique(input_df, pk),
                  summary_table |-> SubSeq(df_summary, 1, Min(Len(df_summary), max_cols))])

\* variant: the assertion looks at the columns only, and a table with columns
\* and no row gets a summary without rows
GetDfSummaryOfNoRows(input_df, pk, subset, max_cols) ==
    IF Len(input_df.cols) = 0 THEN Raised("AssertionError: Dataframe is empty")
    ELSE IF Len(input_df.rows) = 0
    THEN Returned([number_of_records |-> 0,
                   number_of_columns |-> Len(input_df.cols),
                   primary_key |-> pk,
                   is_primary_key_unique |-> FALSE,
                   summary_table |-> <<>>])
    ELSE DfSummaryReport(input_df, pk, subset, max_cols)

GetDfSummary(input_df, pk, subset, max_cols) ==
    IF IsEmpty(input_df) THEN Raised("AssertionError: Dataframe is empty")
    ELSE DfSummaryReport(input_df, pk, subset, max_cols)

(***************************************************************************)
(* check_column_names                                                      *)
(***************************************************************************)
\* The lists made from Python sets (list(columns_only_in_old), list(removed_ids))
\* come in the iteration order of the set, which the language leaves open;
\* they are modelled as the set of their elements.
\* variant: the new-only columns are reported beside the old-only ones (an
\* "if" where the code has "elif")
CheckColumnNamesBothSides(old, new) ==
    IF ColSet(old) = ColSet(new)
    THEN [column_name_changes |-> [is_equal |-> TRUE]]
    ELSE
        LET columns_only_in_old == ColSet(old) \ ColSet(new)
            columns_only_in_new == ColSet(new) \ ColSet(old)
        IN  [column_name_changes |->
                [is_equal |-> FALSE,
                 summary |->
                    (IF columns_only_in_old # {}
                     THEN << <<"Unique column(s) in the old table",
                               Cardinality(columns_only_in_old)>> >>
                     ELSE <<>>)
                    \o (IF columns_only_in_new # {}
                        THEN << <<"Unique column(s) in the new table",
                                  Cardinality(columns_only_in_new)>> >>
                        ELSE <<>>),
                 values |->
                    [key \in (IF columns_only_in_old # {} THEN {"removed_columns"} ELSE {})
                             \cup (IF columns_only_in_new # {} THEN {"added_columns"} ELSE {})
                     |-> IF key = "removed_columns" THEN columns_only_in_old
                         ELSE columns_only_in_new]]]

CheckColumnNames(old, new) ==
    IF ColSet(old) = ColSet(new)
    THEN [column_name_changes |-> [is_equal |-> TRUE]]
    ELSE
        LET columns_only_in_old == ColSet(old) \ ColSet(new)
            columns_only_in_new == ColSet(new) \ ColSet(old)
        IN  IF Cardinality(columns_only_in_old) > 0
            THEN [column_name_changes |->
                    [is_equal |-> FALSE,
                     summary |-> << <<"Unique column(s) in the old table",
                                      Cardinality(columns_only_in_old)>> >>,
                     values |-> [removed_columns |-> columns_only_in_old]]]
            ELSE IF Cardinality(columns_only_in_new) > 0
            THEN [column_name_changes |->
                    [is_equal |-> FALSE,
                     summary |-> << <<"Unique column(s) in the new table",
                                      Cardinality(columns_only_in_new)>> >>,
                     values |-> [added_columns |-> columns_only_in_new]]]
            ELSE [column_name_changes |->
                    [is_equal |-> FALSE, summary |-> <<>>, values |-> <<>>]]

(***************************************************************************)
(* check_record_count                                                      *)
(***************************************************************************)
\* a Python dict built by optional insertions: the pairs of entries whose
\* condition holds
DictOf(entries) ==
    LET keys == {e[1] : e \in {x \in entries : x[3]}}
    IN  [key \in keys |-> (CHOOSE e \in entries : e[1] = key)[2]]

CheckRecordCount(old, new, pk) ==
    LET num_old_records == Len(old.rows)
        num_new_records == Len(new.rows)
        removed_ids == PySet(old, pk, 1) \ PySet(new, pk, 2)
        added_ids == PySet(new, pk, 2) \ PySet(old, pk, 1)
    IN  IF Cardinality(removed_ids) = 0 /\ Cardinality(added_ids) = 0
        THEN [record_count_changes |-> [is_equal |-> TRUE]]
        ELSE [record_count_changes |->
                [is_equal |-> FALSE,
                 summary |->
                    << <<"The old table has records", num_old_records>>,
                       <<"The new table has records", num_new_records>>,
                       <<"Change in the total number of records",
                         num_new_records - num_old_records>> >>
                    \o (IF Cardinality(removed_ids) > 0
                        THEN << <<"record(s) removed", Cardinality(removed_ids)>> >>
                        ELSE <<>>)
                    \o (IF Cardinality(added_ids) > 0
                        THEN << <<"record(s) added", Cardinality(added_ids)>> >>
                        ELSE <<>>),
                 values |->
                    DictOf({<<"removed_records", removed_ids, Cardinality(removed_ids) > 0>>,
                            <<"added_records", added_ids, Cardinality(added_ids) > 0>>})]]

(***************************************************************************)
(* get_records_in_both_tables                                              *)
(***************************************************************************)
\* the view of one table: the shared records, the given columns, rows in
\* ascending key order, missing cells filled with "na"
SharedView(df, pk, records_in_both_tables, cols) ==
    FillNa(SortValues(Loc(df, IsIn(df, pk, records_in_both_tables), cols), pk), NA_FILL)

\* np.setdiff1d(column_subset, columns_in_both_tables)
SetDiff1d(cols, others) == Range(cols) \ others

\* variant: no validation of the subset; the columns not in both tables are
\* left out silently
GetRecordsInBothTablesUnchecked(old, new, pk, subset, col_order) ==
    LET records_in_both_tables == PySet(old, pk, 1) \cap PySet(new, pk, 2)
        listed == Filter(subset.cols,
                         [i \in 1..Len(subset.cols) |-> subset.cols[i] \in Range(col_order)])
        cols == IF ~subset.given THEN col_order
                ELSE IF pk \in Range(listed) THEN listed ELSE listed \o <<pk>>
    IN  Returned([old |-> SharedView(old, pk, records_in_both_tables, cols),
                  new |-> SharedView(new, pk, records_in_both_tables, cols)])

\* col_order is list(set(old.columns) & set(new.columns)): the shared column
\* names in the iteration order of a Python set, one order for one process
GetRecordsInBothTables(old, new, pk, subset, col_order) ==
    LET records_in_both_tables == PySet(old, pk, 1) \cap PySet(new, pk, 2)
        columns_in_both_tables == col_order
    IN  IF ~subset.given
        THEN Returned([old |-> SharedView(old, pk, records_in_both_tables, columns_in_both_tables),
                       new |-> SharedView(new, pk, records_in_both_tables, columns_in_both_tables)])
        ELSE IF SetDiff1d(subset.cols, Range(columns_in_both_tables)) # {}
        THEN Raised("AssertionError: columns are not contained in both tables")
        ELSE
            LET cols == IF pk \in Range(subset.cols) THEN subset.cols
                        ELSE subset.cols \o <<pk>>
            IN  Returned([old |-> SharedView(old, pk, records_in_both_tables, cols),
                          new |-> SharedView(new, pk, records_in_both_tables, cols)])

(***************************************************************************)
(* check_datatypes                                                         *)
(***************************************************************************)
\* pd.concat([old.dtypes, new.dtypes], axis=1).dropna(): one row for every
\* column of both tables, in the order of the old table
CombinedDtypes(old, new) ==
    LET shared == Filter(old.cols, [i \in 1..Len(old.cols) |-> old.cols[i] \in ColSet(new)])
    IN  [i \in 1..Len(shared) |->
            [column_name |-> shared[i],
             old_df_dtype |-> Dtype(old, shared[i]),
             new_df_dtype |-> Dtype(new, shared[i])]]

\* variant: the column subset is not applied
CheckDatatypesWholeTable(old, new, pk, subset) ==
    LET combined_df == CombinedDtypes(old, new)
        columns_with_changes ==
            Filter(combined_df,
                   [i \in 1..Len(combined_df) |->
                        combined_df[i].old_df_dtype # combined_df[i].new_df_dtype])
    IN  IF Len(columns_with_changes) = 0
        THEN [datatype_changes |-> [is_equal |-> TRUE]]
        ELSE [datatype_changes |->
                [is_equal |-> FALSE,
                 summary |-> << <<"column(s) have different types (of shared columns)",
                                  Len(columns_with_changes),
                                  <<Len(columns_with_changes), Len(combined_df)>> >> >>,
                 summary_table |-> columns_with_changes,
                 values |->
                    [changed_columns |->
                        [i \in 1..Len(columns_with_changes) |->
                            columns_with_changes[i].column_name]]]]

CheckDatatypes(old, new, pk, subset) ==
    LET combined_df == CombinedDtypes(old, new)
        columns_with_changes ==
            Filter(combined_df,
                   [i \in 1..Len(combined_df) |->
                        /\ combined_df[i].old_df_dtype # combined_df[i].new_df_dtype
                        /\ (subset.given =>
                              combined_df[i].column_name \in {pk} \cup Range(subset.cols))])
    IN  IF Len(columns_with_changes) = 0
        THEN [datatype_changes |-> [is_equal |-> TRUE]]
        ELSE [datatype_changes |->
                [is_equal |-> FALSE,
                 summary |-> << <<"column(s) have different types (of shared columns)",
                                  Len(columns_with_changes),
                                  <<Len(columns_with_changes), Len(combined_df)>> >> >>,
                 summary_table |-> columns_with_changes,
                 values |->
                    [changed_columns |->
                        [i \in 1..Len(columns_with_changes) |->
                            columns_with_changes[i].column_name]]]]

(***************************************************************************)
(* check_chg_in_values                                                     *)
(***************************************************************************)
\* np.sum(shared_old != shared_new, axis=1)[i]
RowChanges(ov, nv, i) == Cardinality({c \in ColSet(nv) : CellNE(ov.rows[i][c], nv.rows[i][c])})

\* np.sum(shared_old != shared_new, axis=0)[c]
ColChanges(ov, nv, c) ==
    Cardinality({i \in 1..Len(nv.rows) : CellNE(ov.rows[i][c], nv.rows[i][c])})

\* changed_records_% descending, then column_names ascending; the proportions
\* have one denominator, so they are ordered as their numerators
PropLess(a, b) ==
    \/ a.changed_records_pct[1] > b.changed_records_pct[1]
    \/ /\ a.changed_records_pct[1] = b.changed_records_pct[1]
       /\ StrLess(a.column_names, b.column_names)

\* variant: the table is sorted by column_names alone
SortPropsByName(S) ==
    [i \in 1..Cardinality(S) |->
        CHOOSE x \in S : Cardinality({y \in S : StrLess(y.column_names, x.column_names)}) = i - 1]

\* prop_of_record_changes_by_col.sort_values(["changed_records_%", "column_names"], ...)
SortProps(S) ==
    [i \in 1..Cardinality(S) |->
        CHOOSE x \in S : Cardinality({y \in S : PropLess(y, x)}) = i - 1]

\* the keys, read in the new view, of the rows with a difference
RecordsWithChanges(ov, nv, pk) ==
    Filter(Series(nv, pk), [i \in 1..Len(nv.rows) |-> RowChanges(ov, nv, i) > 0])

\* the table of the columns with a difference: the proportion k / n times 100
\* is kept as the fraction <<100 k, n>>
PropOfRecordChangesByCol(ov, nv) ==
    SortProps({[column_names |-> c,
                changed_records_pct |-> <<100 * ColChanges(ov, nv, c), Len(nv.rows)>>] :
                  c \in {d \in ColSet(nv) : ColChanges(ov, nv, d) > 0}})

\* variant: the section is filled in also when no record has changed
ValueChangesReportAlwaysFilled(records_with_changes, prop_of_record_changes_by_col, n) ==
    [record_value_changes |->
        [is_equal |-> Len(records_with_changes) = 0,
         summary |-> << <<"records have changed (of shared records)",
                          Len(records_with_changes),
                          <<Len(records_with_changes), n>> >> >>,
         summary_table |-> prop_of_record_changes_by_col,
         values |->
            [changed_records |-> records_with_changes,
             changed_columns |->
                [i \in 1..Len(prop_of_record_changes_by_col) |->
                    prop_of_record_changes_by_col[i].column_names]]]]

\* lines 310-343
ValueChangesReport(records_with_changes, prop_of_record_changes_by_col, n) ==
    IF Len(records_with_changes) = 0
    THEN [record_value_changes |-> [is_equal |-> TRUE]]
    ELSE [record_value_changes |->
            [is_equal |-> FALSE,
             summary |-> << <<"records have changed (of shared records)",
                              Len(records_with_changes),
                              <<Len(records_with_changes), n>> >> >>,
             summary_table |-> prop_of_record_changes_by_col,
             values |->
                [changed_records |-> records_with_changes,
                 changed_columns |->
                    [i \in 1..Len(prop_of_record_changes_by_col) |->
                        prop_of_record_changes_by_col[i].column_names]]]]

\* lines 307-343 on the two views; != on two frames needs identical labels,
\* that is the same row numbers in both
ChgOfViews(shared_old_df_values, shared_new_df_values, pk) ==
    IF Len(shared_old_df_values.rows) # Len(shared_new_df_values.rows)
    THEN Raised("ValueError")
    ELSE Returned(ValueChangesReport(
            RecordsWithChanges(shared_old_df_values, shared_new_df_values, pk),
            PropOfRecordChangesByCol(shared_old_df_values, shared_new_df_values),
            Len(shared_new_df_values.rows)))

\* what get_records_in_both_tables raises, check_chg_in_values raises
ChgOfShared(shared, pk) ==
    IF IsRaised(shared) THEN shared ELSE ChgOfViews(shared.ret.old, shared.ret.new, pk)

CheckChgInValues(old, new, pk, subset, col_order) ==
    ChgOfShared(GetRecordsInBothTables(old, new, pk, subset, col_order), pk)

(***************************************************************************)
(* Objects.  A Python variable names a dataframe object, and an assignment *)
(* to df.columns changes the object the variable names.  After             *)
(* x = x.copy() the local variable names a new object; without the copy it *)
(* would name the caller's object.  A local variable is modelled as the    *)
(* value of its object together with whether that object is the caller's.  *)
(***************************************************************************)
\* variant: no copy, the local variable names the caller's object
DfAlias(df) == [obj |-> df, shared |-> TRUE]

DfCopy(df) == [obj |-> df, shared |-> FALSE]

\* the caller's object after the call: what the local variable did to its
\* object shows in the caller's object only if the two are one object
ArgAfter(before, local, local_after) == IF local.shared THEN local_after ELSE before

Suffix_OLD == <<"_", "O", "L", "D">>
Suffix_NEW == <<"_", "N", "E", "W">>

\* df.columns = [col + suffix if col != primary_key else col for col in df.columns]
RenameColumns(df, suffix, pk) ==
    LET renamed(c) == IF c # pk THEN c \o suffix ELSE c
        cols == [i \in 1..Len(df.cols) |-> renamed(df.cols[i])]
    IN  [cols |-> cols,
         rows |-> [i \in 1..Len(df.rows) |->
                     [nc \in Range(cols) |->
                        df.rows[i][CHOOSE c \in ColSet(df) : renamed(c) = nc]]]]

(***************************************************************************)
(* get_record_changes_comparison_df                                        *)
(***************************************************************************)
\* the rows of pd.merge(left, right, how='inner', on=pk): for every left row,
\* in order, its combinations with the right rows of the same key, in order
RECURSIVE MergeRows(_, _, _, _)
MergeRows(lrows, rrows, pk, cols) ==
    IF lrows = <<>> THEN <<>>
    ELSE
        LET l == Head(lrows)
            matches == Filter(rrows, [j \in 1..Len(rrows) |->
                                        \/ rrows[j][pk] = l[pk]
                                        \/ IsNaN(rrows[j][pk]) /\ IsNaN(l[pk])])
        IN  [j \in 1..Len(matches) |->
                [c \in cols |-> IF c \in DOMAIN l THEN l[c] ELSE matches[j][c]]]
            \o MergeRows(Tail(lrows), rrows, pk, cols)

MergeInner(left, right, pk) ==
    LET cols == left.cols \o Filter(right.cols, [i \in 1..Len(right.cols) |-> right.cols[i] # pk])
    IN  [cols |-> cols, rows |-> MergeRows(left.rows, right.rows, pk, Range(cols))]

\* set_index(pk), reindex(sorted(columns), axis=1), reset_index(): the key
\* first, the other columns in ascending order of their names
SortColumns(df, pk) ==
    [df EXCEPT !.cols = <<pk>> \o SortNames(ColSet(df) \ {pk})]

\* df[[pk] + [col_name for col_name in df.columns
\*            if any(key_col_name + "_" in col_name for key_col_name in column_subset)]]
SubsetColumns(df, pk, subset_cols) ==
    LET cols == <<pk>> \o
            Filter(df.cols,
                   [i \in 1..Len(df.cols) |->
                        \E k \in 1..Len(subset_cols) :
                            StrContains(df.cols[i], subset_cols[k] \o <<"_">>)])
    IN  [cols |-> cols,
         rows |-> [i \in 1..Len(df.rows) |-> [c \in Range(cols) |-> df.rows[i][c]]]]

\* variant: the two tables are merged whole, not restricted to the changed
\* records
ComparisonTableAllRows(old_l, new_l, changed, pk, subset) ==
    LET merged == MergeInner(old_l, new_l, pk)
        sorted == SortColumns(merged, pk)
        final == IF subset.given THEN SubsetColumns(sorted, pk, subset.cols) ELSE sorted
    IN  [is_none |-> FALSE, cols |-> final.cols, rows |-> final.rows]

\* the table of the changed records, from the renamed copies
ComparisonTable(old_l, new_l, changed, pk, subset) ==
    LET merged == MergeInner(Loc(old_l, IsIn(old_l, pk, changed), old_l.cols),
                             Loc(new_l, IsIn(new_l, pk, changed), new_l.cols), pk)
        sorted == SortColumns(merged, pk)
        final == IF subset.given THEN SubsetColumns(sorted, pk, subset.cols) ELSE sorted
    IN  [is_none |-> FALSE, cols |-> final.cols, rows |-> final.rows]

\* lines 372-395: None, or the table of the changed records
ComparisonOrNone(old_l, new_l, changes, pk, subset) ==
    IF changes.is_equal THEN NoneDf
    ELSE ComparisonTable(old_l, new_l, Range(changes.values.changed_records), pk, subset)

\* lines 367-395; lo, ln are the local variables, old_l, new_l their objects
\* after the assignments to .columns
ComparisonResult(changes_report, old, new, lo, ln, old_l, new_l, pk, subset) ==
    IF IsRaised(changes_report)
    THEN [out |-> changes_report, old_after |-> old, new_after |-> new]
    ELSE [out |-> Returned(ComparisonOrNone(old_l, new_l,
                              changes_report.ret.record_value_changes, pk, subset)),
          old_after |-> ArgAfter(old, lo, old_l),
          new_after |-> ArgAfter(new, ln, new_l)]

\* old and new are the objects the caller passes.  The result is what the call
\* returned or raised, and the two objects as they are after the call
GetRecordChangesComparisonDf(old, new, pk, subset, col_order) ==
    ComparisonResult(CheckChgInValues(old, new, pk, subset, col_order),
                     old, new, DfCopy(old), DfCopy(new),
                     RenameColumns(old, Suffix_OLD, pk), RenameColumns(new, Suffix_NEW, pk),
                     pk, subset)

(***************************************************************************)
(* create_consolidated_report                                              *)
(***************************************************************************)
\* the row cap create_consolidated_report gives to get_df_summary
ReportMaxCols == 100

\* the default row cap of get_df_summary
DefaultMaxCols == 15

\* base_report['meta']
Meta(old, new, subset) ==
    [title_text |-> "DataDelta: Dataset Comparison Report",
     report_date |-> "today",
     column_subset |-> subset,
     is_all_equal |-> Equals(old, new)]

\* lines 445-450: the reports merged, once no step has raised
Consolidate(meta, old_summary, new_summary, names, counts, types, chg, cmp) ==
    [consolidated_report |->
        [meta |-> meta,
         old_df_table_summary |-> old_summary.ret,
         new_df_table_summary |-> new_summary.ret,
         column_name_changes |-> names.column_name_changes,
         record_count_changes |-> counts.record_count_changes,
         datatype_changes |-> types.datatype_changes,
         record_value_changes |-> chg.ret.record_value_changes],
     record_changes_comparison_df |-> cmp.out.ret]

\* lines 429-450: a step that raises ends the call
ReportResult(old, new, lo, ln, old_summary, new_summary, chg, cmp, pk, subset) ==
    IF IsRaised(old_summary) THEN [out |-> old_summary, old_after |-> old, new_after |-> new]
    ELSE IF IsRaised(new_summary)
    THEN [out |-> new_summary, old_after |-> old, new_after |-> new]
    ELSE IF IsRaised(chg) THEN [out |-> chg, old_after |-> old, new_after |-> new]
    ELSE [out |-> IF IsRaised(cmp.out) THEN cmp.out
                  ELSE Returned(Consolidate(Meta(old, new, subset), old_summary, new_summary,
                                            CheckColumnNames(old, new),
                                            CheckRecordCount(old, new, pk),
                                            CheckDatatypes(old, new, pk, subset),
                                            chg, cmp)),
          old_after |-> ArgAfter(old, lo, cmp.old_after),
          new_after |-> ArgAfter(new, ln, cmp.new_after)]

CreateConsolidatedReport(old, new, pk, subset, col_order) ==
    ReportResult(old, new, DfCopy(old), DfCopy(new),
                 GetDfSummary(old, pk, subset, ReportMaxCols),
                 GetDfSummary(new, pk, subset, ReportMaxCols),
                 CheckChgInValues(old, new, pk, subset, col_order),
                 GetRecordChangesComparisonDf(old, new, pk, subset, col_order),
                 pk, subset)

(***************************************************************************)
(* The files of the working directory.  fs maps a file name (a Python str, *)
(* the sequence of its characters) to what the directory holds under it.   *)
(***************************************************************************)
\* no file of that name
Absent == [exists |-> FALSE, kind |-> "none", of |-> <<>>]
\* a file of length 0, as open(name, 'w') leaves it
EmptyFile == [exists |-> TRUE, kind |-> "empty", of |-> <<>>]
\* a file somebody else wrote before
OtherFile == [exists |-> TRUE, kind |-> "text", of |-> <<>>]

HtmlExt == <<".", "h", "t", "m", "l">>
PickleExt == <<".", "p", "i", "c", "k", "l", "e">>

\* Python's True, False and None as return values
PyTrue == [py |-> "True"]
PyFalse == [py |-> "False"]
PyNone == [py |-> "None"]

\* os.path.isfile(name)
IsFile(files, name) == name \in DOMAIN files /\ files[name].exists

\* the directory after data has been written to the file of that name
WriteFile(files, name, data) ==
    [n \in DOMAIN files \cup {name} |-> IF n = name THEN data ELSE files[n]]

\* name.split(".", 1)[0]: the characters before the first "."
RECURSIVE SplitFirst(_)
SplitFirst(name) ==
    IF name = <<>> \/ Head(name) = "." THEN <<>>
    ELSE <<Head(name)>> \o SplitFirst(Tail(name))

\* html_template.render(...): the document of the report and of the comparison
\* table
Render(consolidated_report, record_changes_comparison_df) ==
    [exists |-> TRUE, kind |-> "html",
     of |-> <<[consolidated_report |-> consolidated_report,
               record_changes_comparison_df |-> record_changes_comparison_df]>>]

\* pickle.dumps(input_dict): the bytes that stand for the object
PickleDumps(input_dict) == [exists |-> TRUE, kind |-> "pickle", of |-> <<input_dict>>]

\* lines 658-675.  The file of the name as given is opened for writing, which
\* creates or empties it, before the name is completed and before the target
\* is looked for; the document is written to the file that was opened.
ExportHtmlReport(files, consolidated_report, record_changes_comparison_df, export_file_name, overwrite_existing_file) ==
    LET opened == WriteFile(files, export_file_name, EmptyFile)
        target == IF ~StrContains(export_file_name, HtmlExt)
                  THEN export_file_name \o HtmlExt
                  ELSE export_file_name
    IN  IF IsFile(opened, target) /\ ~overwrite_existing_file
        THEN [out |-> Returned(PyFalse), fs_after |-> opened]
        ELSE [out |-> Returned(PyTrue),
              fs_after |-> WriteFile(opened, export_file_name,
                                     Render(consolidated_report,
                                            record_changes_comparison_df))]

\* lines 691-701: no return statement follows the write
SavePickle(files, input_dict, export_file_name, overwrite_existing_file) ==
    LET target == IF ~StrContains(export_file_name, PickleExt)
                  THEN SplitFirst(export_file_name) \o PickleExt
                  ELSE export_file_name
    IN  IF IsFile(files, target) /\ ~overwrite_existing_file
        THEN [out |-> Returned(PyFalse), fs_after |-> files]
        ELSE [out |-> Returned(PyNone),
              fs_after |-> WriteFile(files, target, PickleDumps(input_dict))]

\* lines 714-717: open(..., "rb") raises for a missing file, pickle.load for a
\* file that holds no pickled object
LoadPickle(files, import_file_name) ==
    IF ~IsFile(files, import_file_name) THEN Raised("FileNotFoundError")
    ELSE IF files[import_file_name].kind = "empty" THEN Raised("EOFError")
    ELSE IF files[import_file_name].kind # "pickle" THEN Raised("UnpicklingError")
    ELSE Returned(files[import_file_name].of[1])

(***************************************************************************)
(* The inputs of the model.                                                *)
(***************************************************************************)
ColA == <<"A">>
ColB == <<"B">>
ColC == <<"C">>
\* a column whose name ends with the name of another column
ColAB == <<"A", "B">>

\* a row with key a and cell b in column B; a further column holds 1
RowOf(cols, a, b) ==
    [c \in Range(cols) |-> IF c = ColA THEN a ELSE IF c = ColB THEN b ELSE Num(1)]

SeqsUpTo(S, n) == UNION {[1..k -> S] : k \in 0..n}

\* the (key, B) pairs of the rows of the tables with columns A, B: keys 1, 2 and
\* a missing key; cells 1, missing and the text "na"
RowPool ==
    {<<Num(1), Num(1)>>, <<Num(1), NaN>>, <<Num(1), NA_FILL>>,
     <<Num(2), Num(1)>>, <<Num(2), NaN>>, <<NaN, Num(1)>>}

TablesAB ==
    {[cols |-> <<ColA, ColB>>, rows |-> rs] :
        rs \in SeqsUpTo({RowOf(<<ColA, ColB>>, p[1], p[2]) : p \in RowPool}, MaxRows)}

\* the column lists of the tables whose columns vary
Layouts ==
    {<<ColA>>, <<ColA, ColB>>, <<ColB, ColA>>, <<ColA, ColC>>, <<ColA, ColB, ColC>>,
     <<ColA, ColB, ColAB>>}

WidePool == {<<Num(1), Num(1)>>, <<Num(1), NaN>>}

TablesWide ==
    UNION {{[cols |-> cols, rows |-> rs] :
              rs \in SeqsUpTo({RowOf(cols, p[1], p[2]) : p \in WidePool}, MaxRowsWide)} :
           cols \in Layouts}

SubsetsWide ==
    {NoSubset, Subset(<<>>), Subset(<<ColB>>), Subset(<<ColC>>), Subset(<<ColA>>),
     Subset(<<ColB, ColC>>)}

\* the decimal digits as characters
DigitChars == <<"0", "1", "2", "3", "4", "5", "6", "7", "8", "9">>

\* the name of the i-th further column of a table with many columns: "C" and
\* the three digits of i
ColName(i) ==
    <<"C", DigitChars[((i \div 100) % 10) + 1], DigitChars[((i \div 10) % 10) + 1],
      DigitChars[(i % 10) + 1]>>

\* a table of one row with the key column and n - 1 further columns
ManyColumnsTable(n) ==
    LET cols == <<ColA>> \o [i \in 1..(n - 1) |-> ColName(i)]
    IN  [cols |-> cols, rows |-> <<[c \in Range(cols) |-> Num(1)]>>]

\* a table of one row with the key column alone
KeyOnlyTable == [cols |-> <<ColA>>, rows |-> <<RowOf(<<ColA>>, Num(1), Num(1))>>]

\* the tables with the columns A, B, C and n rows of the keys 1 .. n, whose
\* cells of B and C hold 1 or are missing
TablesABC(n) ==
    {[cols |-> <<ColA, ColB, ColC>>,
      rows |-> [i \in 1..n |->
                  [c \in {ColA, ColB, ColC} |->
                      IF c = ColA THEN Num(i) ELSE IF c = ColB THEN b[i] ELSE d[i]]]] :
        b \in [1..n -> {Num(1), NaN}], d \in [1..n -> {Num(1), NaN}]}

\* the table of these in which no cell is missing
TableABCFull(n) ==
    CHOOSE t \in TablesABC(n) : \A i \in 1..n : t.rows[i][ColB] = Num(1) /\ t.rows[i][ColC] = Num(1)

\* the names the model gives to files
FileR == <<"r">>
FileNames == {FileR, FileR \o HtmlExt, FileR \o PickleExt}

\* no file operation has been called
NoIo == [op |-> "none"]

\* an empty working directory
NoFiles == [n \in FileNames |-> Absent]

Init ==
    /\ primary_key = ColA
    /\ pc = "ready"
    /\ result = Raised("no call")
    /\ fs = NoFiles
    /\ io = NoIo
    /\ \/ /\ old_df \in TablesAB
          /\ new_df \in TablesAB
          /\ column_subset = NoSubset
       \/ /\ old_df \in TablesWide
          /\ new_df \in TablesWide
          /\ column_subset \in SubsetsWide
       \/ /\ old_df = ManyColumnsTable(ManyCols)
          /\ new_df = KeyOnlyTable
          /\ column_subset = NoSubset
       \/ /\ old_df = KeyOnlyTable
          /\ new_df = ManyColumnsTable(ManyCols)
          /\ column_subset = NoSubset
       \/ /\ old_df = TableABCFull(ChgRows)
          /\ new_df \in TablesABC(ChgRows)
          /\ column_subset = NoSubset

\* the orders in which a Python set of the shared column names can iterate
ColOrders == Orderings(ColSet(old_df) \cap ColSet(new_df))

(***************************************************************************)
(* One action for every function of the module: the caller, holding the    *)
(* tables old_df and new_df, calls it once.                                *)
(***************************************************************************)
CallGetDfSummary ==
    /\ pc = "ready"
    /\ \E t \in {"old", "new"} :
        /\ pc' = "get_df_summary_" \o t
        /\ result' = GetDfSummary(IF t = "old" THEN old_df ELSE new_df,
                                  primary_key, column_subset, DefaultMaxCols)
    /\ UNCHANGED <<old_df, new_df, primary_key, column_subset, fs, io>>

CallCheckColumnNames ==
    /\ pc = "ready"
    /\ pc' = "check_column_names"
    /\ result' = Returned(CheckColumnNames(old_df, new_df))
    /\ UNCHANGED <<old_df, new_df, primary_key, column_subset, fs, io>>

CallCheckRecordCount ==
    /\ pc = "ready"
    /\ pc' = "check_record_count"
    /\ result' = Returned(CheckRecordCount(old_df, new_df, primary_key))
    /\ UNCHANGED <<old_df, new_df, primary_key, column_subset, fs, io>>

CallGetRecordsInBothTables ==
    /\ pc = "ready"
    /\ pc' = "get_records_in_both_tables"
    /\ \E col_order \in ColOrders :
        result' = GetRecordsInBothTables(old_df, new_df, primary_key, column_subset, col_order)
    /\ UNCHANGED <<old_df, new_df, primary_key, column_subset, fs, io>>

CallCheckDatatypes ==
    /\ pc = "ready"
    /\ pc' = "check_datatypes"
    /\ result' = Returned(CheckDatatypes(old_df, new_df, primary_key, column_subset))
    /\ UNCHANGED <<old_df, new_df, primary_key, column_subset, fs, io>>

CallCheckChgInValues ==
    /\ pc = "ready"
    /\ pc' = "check_chg_in_values"
    /\ \E col_order \in ColOrders :
        result' = CheckChgInValues(old_df, new_df, primary_key, column_subset, col_order)
    /\ UNCHANGED <<old_df, new_df, primary_key, column_subset, fs, io>>

CallGetRecordChangesComparisonDf ==
    /\ pc = "ready"
    /\ pc' = "get_record_changes_comparison_df"
    /\ \E col_order \in ColOrders :
        LET r == GetRecordChangesComparisonDf(old_df, new_df, primary_key, column_subset,
                                              col_order)
        IN  /\ result' = r.out
            /\ old_df' = r.old_after
            /\ new_df' = r.new_after
    /\ UNCHANGED <<primary_key, column_subset, fs, io>>

CallCreateConsolidatedReport ==
    /\ pc = "ready"
    /\ pc' = "create_consolidated_report"
    /\ \E col_order \in ColOrders :
        LET r == CreateConsolidatedReport(old_df, new_df, primary_key, column_subset,
                                          col_order)
        IN  /\ result' = r.out
            /\ old_df' = r.old_after
            /\ new_df' = r.new_after
    /\ UNCHANGED <<primary_key, column_subset, fs, io>>

Next ==
    \/ CallGetDfSummary
    \/ CallCheckColumnNames
    \/ CallCheckRecordCount
    \/ CallGetRecordsInBothTables
    \/ CallCheckDatatypes
    \/ CallCheckChgInValues
    \/ CallGetRecordChangesComparisonDf
    \/ CallCreateConsolidatedReport

Spec == Init /\ [][Next]_vars

(***************************************************************************)
(* The calls that meet a table without rows or without columns: the        *)
(* summary of one table and the assembly of the report.                    *)
(***************************************************************************)
\* the tables with no row, and the tables with rows and no column
TablesEmpty ==
    {[cols |-> cols, rows |-> <<>>] : cols \in {<<>>, <<ColA>>, <<ColA, ColB>>}}
    \cup {[cols |-> <<>>, rows |-> [i \in 1..k |-> <<>>]] : k \in 1..MaxRows}

\* these, and tables with one row
TablesMaybeEmpty ==
    TablesEmpty \cup {t \in TablesWide : t.cols \in {<<ColA>>, <<ColA, ColB>>}}

InitEmpty ==
    /\ primary_key = ColA
    /\ pc = "ready"
    /\ result = Raised("no call")
    /\ old_df \in TablesMaybeEmpty
    /\ new_df \in TablesMaybeEmpty
    /\ column_subset \in {NoSubset, Subset(<<ColB>>)}
    /\ fs = NoFiles
    /\ io = NoIo

NextEmpty == CallGetDfSummary \/ CallCreateConsolidatedReport

SpecEmpty == InitEmpty /\ [][NextEmpty]_vars

(***************************************************************************)
(* The export of a report, as in the script at the end of the source       *)
(* (lines 720-731): a report is assembled, then saved and exported.  The    *)
(* directory may hold files before.                                        *)
(***************************************************************************)
\* the tables of the runs that write files
FileTableOld == [cols |-> <<ColA, ColB>>, rows |-> <<RowOf(<<ColA, ColB>>, Num(1), Num(1))>>]
FileTablesNew ==
    {FileTableOld,
     [cols |-> <<ColA, ColB>>, rows |-> <<RowOf(<<ColA, ColB>>, Num(1), NaN)>>]}

InitFiles ==
    /\ primary_key = ColA
    /\ pc = "ready"
    /\ result = Raised("no call")
    /\ old_df = FileTableOld
    /\ new_df \in FileTablesNew
    /\ column_subset = NoSubset
    /\ fs \in [FileNames -> {Absent, OtherFile}]
    /\ io = NoIo

\* the caller holds the report and the comparison table of line 725
HasReport == pc = "create_consolidated_report" /\ ~IsRaised(result)

CallExportHtmlReport ==
    /\ HasReport
    /\ \E export_file_name \in {FileR, FileR \o HtmlExt} :
       \E overwrite_existing_file \in BOOLEAN :
        LET r == ExportHtmlReport(fs, result.ret.consolidated_report,
                                  result.ret.record_changes_comparison_df,
                                  export_file_name, overwrite_existing_file)
        IN  /\ fs' = r.fs_after
            /\ io' = [op |-> "export_html_report",
                      export_file_name |-> export_file_name,
                      overwrite_existing_file |-> overwrite_existing_file,
                      out |-> r.out]
    /\ UNCHANGED <<old_df, new_df, primary_key, column_subset, pc, result>>

CallSavePickle ==
    /\ HasReport
    /\ \E export_file_name \in FileNames :
       \E overwrite_existing_file \in BOOLEAN :
        LET r == SavePickle(fs, result.ret.consolidated_report,
                            export_file_name, overwrite_existing_file)
        IN  /\ fs' = r.fs_after
            /\ io' = [op |-> "save_pickle",
                      export_file_name |-> export_file_name,
                      overwrite_existing_file |-> overwrite_existing_file,
                      out |-> r.out]
    /\ UNCHANGED <<old_df, new_df, primary_key, column_subset, pc, result>>

CallLoadPickle ==
    /\ HasReport
    /\ \E import_file_name \in FileNames :
        io' = [op |-> "load_pickle",
               export_file_name |-> import_file_name,
               overwrite_existing_file |-> FALSE,
               out |-> LoadPickle(fs, import_file_name)]
    /\ UNCHANGED <<old_df, new_df, primary_key, column_subset, pc, result, fs>>

NextFiles ==
    \/ CallCreateConsolidatedReport
    \/ CallExportHtmlReport
    \/ CallSavePickle
    \/ CallLoadPickle

SpecFiles == InitFiles /\ [][NextFiles]_vars

(***************************************************************************)
(* Properties.                                                             *)
(***************************************************************************)
Report == result.ret.consolidated_report

\* the key cells of a table, a missing key being the one value NaN
KeyValues(df) == {df.rows[i][primary_key] : i \in 1..Len(df.rows)}

\* what a list of boxed keys holds as values
Unboxed(ids) == {IF x.k = "nan" THEN NaN ELSE x : x \in ids}

\* C1: create_consolidated_report on a non-empty table and its exact copy
\* returns a report whose meta.is_all_equal and whose four is_equal flags are
\* all True, and None as the comparison table, also with missing values in
\* the table.
C1_ExactCopyAllEqual ==
    (/\ pc = "create_consolidated_report"
     /\ new_df = old_df
     /\ ~IsEmpty(old_df)
     /\ ~column_subset.given)
    => /\ ~IsRaised(result)
       /\ Report.meta.is_all_equal
       /\ Report.column_name_changes.is_equal
       /\ Report.record_count_changes.is_equal
       /\ Report.datatype_changes.is_equal
       /\ Report.record_value_changes.is_equal
       /\ result.ret.record_changes_comparison_df.is_none

\* the shape of a section body: is_equal alone, or is_equal with a non-empty
\* summary and a non-empty values mapping
SectionShape(body) ==
    IF body.is_equal THEN DOMAIN body = {"is_equal"}
    ELSE /\ {"summary", "values"} \subseteq DOMAIN body
         /\ Len(body.summary) > 0
         /\ DOMAIN body.values # {}

\* C2: every differ that returns gives a section body in which is_equal=True
\* is the only key, or is_equal=False comes with a non-empty summary and a
\* non-empty values mapping whose lists are non-empty.
C2_SectionShape ==
    /\ pc = "check_column_names" =>
         LET b == result.ret.column_name_changes
         IN  SectionShape(b) /\ (~b.is_equal => \A key \in DOMAIN b.values : b.values[key] # {})
    /\ pc = "check_record_count" =>
         LET b == result.ret.record_count_changes
         IN  SectionShape(b) /\ (~b.is_equal => \A key \in DOMAIN b.values : b.values[key] # {})
    /\ pc = "check_datatypes" =>
         LET b == result.ret.datatype_changes
         IN  SectionShape(b) /\ (~b.is_equal => Len(b.values.changed_columns) > 0)
    /\ (pc = "check_chg_in_values" /\ ~IsRaised(result)) =>
         LET b == result.ret.record_value_changes
         IN  SectionShape(b) /\ (~b.is_equal => /\ Len(b.values.changed_records) > 0
                                                /\ Len(b.values.changed_columns) > 0)

\* every one of the four differs has reported a difference somewhere
C2_Witness ==
    /\ pc = "check_chg_in_values"
    /\ ~IsRaised(result)
    /\ ~result.ret.record_value_changes.is_equal
    /\ ColSet(old_df) # ColSet(new_df)
    /\ ~CheckDatatypes(old_df, new_df, primary_key, column_subset).datatype_changes.is_equal

\* C3: check_record_count reports is_equal=True exactly when the two tables
\* have the same set of key values; otherwise removed_records is present
\* exactly when some key of old is not in new and then holds exactly those
\* keys, and the same for added_records and the keys of new not in old.
C3_RecordCount ==
    pc = "check_record_count" =>
        LET b == result.ret.record_count_changes
            removed == KeyValues(old_df) \ KeyValues(new_df)
            added == KeyValues(new_df) \ KeyValues(old_df)
        IN  /\ b.is_equal <=> (KeyValues(old_df) = KeyValues(new_df))
            /\ ~b.is_equal =>
                /\ ("removed_records" \in DOMAIN b.values) <=> (removed # {})
                /\ ("added_records" \in DOMAIN b.values) <=> (added # {})
                /\ removed # {} => Unboxed(b.values.removed_records) = removed
                /\ added # {} => Unboxed(b.values.added_records) = added

\* C4: check_column_names reports is_equal=False exactly when the column sets
\* differ; when old has a column of its own, removed_columns is old minus new
\* and there is no added_columns, also when new has columns of its own;
\* added_columns, new minus old, is there only when old has none of its own.
C4_ColumnNames ==
    pc = "check_column_names" =>
        LET b == result.ret.column_name_changes
            only_old == ColSet(old_df) \ ColSet(new_df)
            only_new == ColSet(new_df) \ ColSet(old_df)
        IN  /\ ~b.is_equal <=> (ColSet(old_df) # ColSet(new_df))
            /\ only_old # {} =>
                /\ "removed_columns" \in DOMAIN b.values
                /\ b.values.removed_columns = only_old
                /\ "added_columns" \notin DOMAIN b.values
            /\ (~b.is_equal /\ "added_columns" \in DOMAIN b.values) =>
                /\ only_old = {}
                /\ only_new # {}
                /\ b.values.added_columns = only_new
            /\ (only_old = {} /\ only_new # {}) => "added_columns" \in DOMAIN b.values

\* both tables have a column of their own
C4_Witness ==
    /\ pc = "check_column_names"
    /\ ColSet(old_df) \ ColSet(new_df) # {}
    /\ ColSet(new_df) \ ColSet(old_df) # {}
    /\ "removed_columns" \in DOMAIN result.ret.column_name_changes.values

\* the columns the value comparison is about
EffectiveCols ==
    IF column_subset.given THEN Range(column_subset.cols) \cup {primary_key}
    ELSE ColSet(old_df) \cap ColSet(new_df)

\* the key values present in both tables; a missing key is no value here
SharedKeys == (KeyValues(old_df) \cap KeyValues(new_df)) \ {NaN}

\* the rows of a table with key k, in the order of the table
RowsOf(df, k) == Filter(df.rows, [i \in 1..Len(df.rows) |-> df.rows[i][primary_key] = k])

\* two cells differ: two missing cells do not, a missing and a present cell do
Differs(a, b) == IF IsNaN(a) \/ IsNaN(b) THEN IsNaN(a) # IsNaN(b) ELSE a # b

\* the old and the new row of key k differ in a column of the comparison
KeyChanged(k) ==
    LET ro == RowsOf(old_df, k)
        rn == RowsOf(new_df, k)
    IN  \/ Len(ro) # Len(rn)
        \/ \E i \in 1..Len(ro) : \E c \in EffectiveCols : Differs(ro[i][c], rn[i][c])

\* C5: check_chg_in_values lists in changed_records exactly the keys of both
\* tables whose old and new row differ in a column of the effective column
\* set, states the size of that set as the count of its summary, and reports
\* is_equal=True exactly when there is no such key.
C5_ChangedRecords ==
    (pc = "check_chg_in_values" /\ ~IsRaised(result)) =>
        LET b == result.ret.record_value_changes
            expected == {k \in SharedKeys : KeyChanged(k)}
        IN  /\ b.is_equal <=> (expected = {})
            /\ ~b.is_equal =>
                /\ Range(b.values.changed_records) = expected
                /\ b.summary[1][2] = Cardinality(expected)

\* the subset lists a column that is not a column of both tables
InvalidSubset ==
    /\ column_subset.given
    /\ ~(Range(column_subset.cols) \subseteq (ColSet(old_df) \cap ColSet(new_df)))

\* C6: the two views of get_records_in_both_tables have the same number of
\* rows, at most the number of rows of either table and equal to the number of
\* distinct key values present in both tables; each view has as many columns
\* as the tables share, or as the valid subset with the key added has.
C6_SharedViews ==
    (pc = "get_records_in_both_tables" /\ ~IsRaised(result)) =>
        LET ov == result.ret.old
            nv == result.ret.new
            ncols == IF column_subset.given
                     THEN Cardinality(Range(column_subset.cols) \cup {primary_key})
                     ELSE Cardinality(ColSet(old_df) \cap ColSet(new_df))
        IN  /\ Len(ov.rows) = Len(nv.rows)
            /\ Len(ov.rows) <= Min(Len(old_df.rows), Len(new_df.rows))
            /\ Len(ov.rows) = Cardinality(SharedKeys)
            /\ Len(ov.cols) = ncols
            /\ Len(nv.cols) = ncols

\* some key value is the key of two rows
HasRepeatedKey(df) ==
    \E i, j \in 1..Len(df.rows) :
        i # j /\ df.rows[i][primary_key] = df.rows[j][primary_key]

\* C7: with a repeated key in old or in new, create_consolidated_report (on
\* non-empty tables and a valid subset) does not fail; it returns the report,
\* with is_primary_key_unique=False in the summary of the table concerned.
C7_RepeatedKeyProceeds ==
    (/\ pc = "create_consolidated_report"
     /\ HasRepeatedKey(old_df) \/ HasRepeatedKey(new_df)
     /\ ~IsEmpty(old_df) /\ ~IsEmpty(new_df)
     /\ ~InvalidSubset)
    => /\ ~IsRaised(result)
       /\ HasRepeatedKey(old_df) => ~Report.old_df_table_summary.is_primary_key_unique
       /\ HasRepeatedKey(new_df) => ~Report.new_df_table_summary.is_primary_key_unique

AssertionErrors ==
    {"AssertionError: Dataframe is empty",
     "AssertionError: columns are not contained in both tables"}

\* C8: with a subset that lists a column not in both tables,
\* get_records_in_both_tables, check_chg_in_values and
\* create_consolidated_report raise the validation error and return nothing;
\* with a subset of columns of both tables they do not raise it, and the key
\* is a column of both views, listed or not.
C8_SubsetValidation ==
    /\ (pc \in {"get_records_in_both_tables", "check_chg_in_values",
                "create_consolidated_report"} /\ InvalidSubset) =>
            /\ result.exc \in AssertionErrors
            /\ "ret" \notin DOMAIN result
    /\ (pc \in {"get_records_in_both_tables", "check_chg_in_values",
                "create_consolidated_report"} /\ ~InvalidSubset) =>
            result.exc # "AssertionError: columns are not contained in both tables"
    /\ (pc = "get_records_in_both_tables" /\ ~InvalidSubset) =>
            /\ ~IsRaised(result)
            /\ primary_key \in Range(result.ret.old.cols)
            /\ primary_key \in Range(result.ret.new.cols)

\* the assembler, on two non-empty tables, has refused a subset
C8_Witness ==
    /\ pc = "create_consolidated_report"
    /\ InvalidSubset
    /\ ~IsEmpty(old_df) /\ ~IsEmpty(new_df)
    /\ result.exc = "AssertionError: columns are not contained in both tables"

\* C9: a call, returning or raising, leaves the caller's two tables as they
\* were: the same columns in the same order, the same rows, the same cells.
C9_InputsUnchanged == [][old_df' = old_df /\ new_df' = new_df]_vars

\* get_record_changes_comparison_df has renamed the columns of its tables and
\* built the comparison table, of tables with a missing cell
C9_Witness ==
    /\ pc = "get_record_changes_comparison_df"
    /\ ~IsRaised(result)
    /\ ~result.ret.is_none
    /\ \E i \in 1..Len(old_df.rows) : \E c \in ColSet(old_df) : IsNaN(old_df.rows[i][c])
    /\ Len(old_df.cols) > 1

\* no key value that is not missing is the key of two rows
UniqueKeys(df) ==
    \A i, j \in 1..Len(df.rows) :
        (i # j /\ ~IsNaN(df.rows[i][primary_key])) =>
            df.rows[i][primary_key] # df.rows[j][primary_key]

\* C10: for tables with unique keys, the comparison table that
\* create_consolidated_report returns is None exactly when
\* record_value_changes.is_equal is True; otherwise it has one row for every
\* key of changed_records and no other row.
C10_ComparisonRows ==
    (/\ pc = "create_consolidated_report"
     /\ ~IsRaised(result)
     /\ UniqueKeys(old_df) /\ UniqueKeys(new_df))
    => LET cmp == result.ret.record_changes_comparison_df
           b == Report.record_value_changes
           keys == [i \in 1..Len(cmp.rows) |-> cmp.rows[i][primary_key]]
       IN  /\ cmp.is_none <=> b.is_equal
           /\ ~cmp.is_none =>
                /\ Range(keys) = Range(b.values.changed_records)
                /\ Cardinality(Range(keys)) = Len(keys)

\* a report with a changed and an unchanged shared record
C10_Witness ==
    /\ pc = "create_consolidated_report"
    /\ ~IsRaised(result)
    /\ UniqueKeys(old_df) /\ UniqueKeys(new_df)
    /\ ~result.ret.record_changes_comparison_df.is_none
    /\ Len(result.ret.record_changes_comparison_df.rows) = 1
    /\ Cardinality(SharedKeys) = 2

\* the columns the claim C11 names: the key, then c_OLD and c_NEW for the
\* columns c of the subset other than the key
SubsetComparisonCols ==
    {c \o sfx : c \in Range(column_subset.cols) \ {primary_key},
                sfx \in {Suffix_OLD, Suffix_NEW}}

\* C11: with a column subset and changed records, the columns of the
\* comparison table are the primary key followed by c_OLD and c_NEW for the
\* non-key columns c of the subset, and no column of another base name,
\* whatever other columns the tables have.
C11_SubsetComparisonColumns ==
    (/\ pc = "get_record_changes_comparison_df"
     /\ column_subset.given
     /\ ~IsRaised(result)
     /\ ~result.ret.is_none)
    => /\ result.ret.cols[1] = primary_key
       /\ Range(Tail(result.ret.cols)) = SubsetComparisonCols
       /\ Len(result.ret.cols) = 1 + Cardinality(SubsetComparisonCols)

\* the path export_html_report is to write, its name completed by ".html"
ExportTarget(name) == IF StrContains(name, HtmlExt) THEN name ELSE name \o HtmlExt

\* the path save_pickle is to write, its name brought to ".pickle"
PickleTarget(name) ==
    IF StrContains(name, PickleExt) THEN name ELSE SplitFirst(name) \o PickleExt

\* C12: when a file exists at the export target and overwrite_existing_file
\* is False, export_html_report returns False without raising and the file
\* at the target holds after the call what it held before.
C12_ExportKeepsExistingFile ==
    [][(/\ CallExportHtmlReport
        /\ IsFile(fs, ExportTarget(io'.export_file_name))
        /\ ~io'.overwrite_existing_file)
       => /\ io'.out = Returned(PyFalse)
          /\ fs'[ExportTarget(io'.export_file_name)]
                = fs[ExportTarget(io'.export_file_name)]]_vars

\* C13: when no file exists at a target whose name contains ".html" and
\* overwrite_existing_file is False, export_html_report writes the rendered
\* report to that path and returns True; it returns False only when the file
\* existed before the call and overwrite_existing_file is False.
C13_ExportWritesNewFile ==
    [][CallExportHtmlReport
       => /\ (/\ StrContains(io'.export_file_name, HtmlExt)
              /\ ~IsFile(fs, io'.export_file_name)
              /\ ~io'.overwrite_existing_file)
             => /\ io'.out = Returned(PyTrue)
                /\ fs'[io'.export_file_name]
                      = Render(result.ret.consolidated_report,
                               result.ret.record_changes_comparison_df)
          /\ io'.out = Returned(PyFalse)
             => /\ IsFile(fs, ExportTarget(io'.export_file_name))
                /\ ~io'.overwrite_existing_file]_vars

\* C14: save_pickle returns False and leaves the file as it is when a file
\* exists at the target and overwrite_existing_file is False; in every other
\* case it writes the serialized mapping to the target and returns True, and
\* a load_pickle of the target that follows returns a mapping equal to it.
C14_SavePickle ==
    [][/\ CallSavePickle
          => LET target == PickleTarget(io'.export_file_name)
             IN  IF IsFile(fs, target) /\ ~io'.overwrite_existing_file
                 THEN io'.out = Returned(PyFalse) /\ fs'[target] = fs[target]
                 ELSE /\ io'.out = Returned(PyTrue)
                      /\ fs'[target] = PickleDumps(result.ret.consolidated_report)
                      /\ LoadPickle(fs', target) = Returned(result.ret.consolidated_report)
       /\ (/\ CallLoadPickle
           /\ io.op = "save_pickle"
           /\ io.out # Returned(PyFalse)
           /\ io'.export_file_name = PickleTarget(io.export_file_name))
          => io'.out = Returned(result.ret.consolidated_report)]_vars

\* the columns of both tables, of the subset plus the key when a subset is
\* given, whose declared type in old is not their declared type in new
TypeChangedCols ==
    {c \in ColSet(old_df) \cap ColSet(new_df) :
        /\ column_subset.given => c \in Range(column_subset.cols) \cup {primary_key}
        /\ Dtype(old_df, c) # Dtype(new_df, c)}

\* C15: check_datatypes lists in changed_columns exactly the columns of both
\* tables, within the subset plus the key when a subset is given, whose
\* declared types differ; is_equal is True exactly when there is none; a
\* column of one table only is never listed.
C15_Datatypes ==
    pc = "check_datatypes" =>
        LET b == result.ret.datatype_changes
        IN  /\ b.is_equal <=> (TypeChangedCols = {})
            /\ ~b.is_equal =>
                /\ Range(b.values.changed_columns) = TypeChangedCols
                /\ Len(b.values.changed_columns) = Cardinality(TypeChangedCols)
                /\ Range(b.values.changed_columns) \subseteq ColSet(old_df) \cap ColSet(new_df)

\* check_datatypes has reported a column of a subset and left out a column
\* with a type change that the subset does not list, on tables of which one
\* has a column of its own
C15_Witness ==
    /\ pc = "check_datatypes"
    /\ column_subset.given
    /\ ~result.ret.datatype_changes.is_equal
    /\ ColSet(old_df) # ColSet(new_df)
    /\ \E c \in ColSet(old_df) \cap ColSet(new_df) :
        /\ Dtype(old_df, c) # Dtype(new_df, c)
        /\ c \notin Range(result.ret.datatype_changes.values.changed_columns)

\* C16: in the report of create_consolidated_report with no column subset,
\* the summary table of each table has one row for every column of the
\* table, however many columns it has.
C16_SummaryNotTruncated ==
    (/\ pc = "create_consolidated_report"
     /\ ~IsRaised(result)
     /\ ~column_subset.given)
    => /\ Len(Report.old_df_table_summary.summary_table) = Len(old_df.cols)
       /\ Len(Report.new_df_table_summary.summary_table) = Len(new_df.cols)

\* C17: get_df_summary raises for a table with zero rows or zero columns, and
\* create_consolidated_report raises, returning neither a report nor a
\* comparison table, when the old or the new table has zero rows or zero columns
C17_EmptyTableFails ==
    /\ (pc = "get_df_summary_old" /\ IsEmpty(old_df)) => IsRaised(result)
    /\ (pc = "get_df_summary_new" /\ IsEmpty(new_df)) => IsRaised(result)
    /\ (pc = "create_consolidated_report" /\ (IsEmpty(old_df) \/ IsEmpty(new_df)))
           => IsRaised(result)

\* the report is asked for a table with rows and columns and a table with a
\* row and no column
C17_Witness ==
    /\ pc = "create_consolidated_report"
    /\ ~IsEmpty(old_df)
    /\ Len(new_df.cols) = 0 /\ Len(new_df.rows) > 0
    /\ IsRaised(result)

\* the two views check_chg_in_values compares
C18_Views ==
    GetRecordsInBothTables(old_df, new_df, primary_key, column_subset,
                           CHOOSE o \in ColOrders : TRUE).ret

\* the number of rows in which the two views differ in column c
C18_Differing(c) ==
    Cardinality({i \in 1..Len(C18_Views.new.rows) :
                    C18_Views.old.rows[i][c] # C18_Views.new.rows[i][c]})

\* C18: when check_chg_in_values reports is_equal=False, the summary table and
\* values.changed_columns name, in the same order, exactly the columns in which
\* at least one row differs between the old view and the new view, ordered by
\* the number of differing rows descending and then by column name ascending
C18_ChangedColumns ==
    (/\ pc = "check_chg_in_values" /\ ~IsRaised(result)
     /\ ~result.ret.record_value_changes.is_equal)
    => LET b == result.ret.record_value_changes
           cc == b.values.changed_columns
       IN  /\ cc = [i \in 1..Len(b.summary_table) |-> b.summary_table[i].column_names]
           /\ Range(cc) = {c \in ColSet(C18_Views.new) : C18_Differing(c) > 0}
           /\ \A i \in 1..Len(cc) : \A j \in 1..Len(cc) :
                 i < j => \/ C18_Differing(cc[i]) > C18_Differing(cc[j])
                          \/ /\ C18_Differing(cc[i]) = C18_Differing(cc[j])
                             /\ StrLess(cc[i], cc[j])

\* two columns have changed, and the one later in the alphabet has changed in
\* more rows and comes first
C18_Witness ==
    /\ pc = "check_chg_in_values" /\ ~IsRaised(result)
    /\ ~result.ret.record_value_changes.is_equal
    /\ result.ret.record_value_changes.values.changed_columns = <<ColC, ColB>>
    /\ C18_Differing(ColC) > C18_Differing(ColB)

\* the table the summary is about
C19_Table == IF pc = "get_df_summary_old" THEN old_df ELSE new_df

\* no value of the primary-key column occurs in more than one row; a missing
\* key is no value
C19_NoKeyRepeats ==
    \A i \in 1..Len(C19_Table.rows) : \A j \in 1..Len(C19_Table.rows) :
        (i # j /\ ~IsNaN(C19_Table.rows[i][primary_key]))
            => C19_Table.rows[i][primary_key] # C19_Table.rows[j][primary_key]

\* C19: for a non-empty table get_df_summary sets is_primary_key_unique to True
\* exactly when no value of the primary-key column occurs in more than one row,
\* and number_of_records and number_of_columns to the numbers of rows and of
\* columns of the whole table
C19_KeyUniqueAndCounts ==
    (pc \in {"get_df_summary_old", "get_df_summary_new"} /\ ~IsEmpty(C19_Table))
    => /\ ~IsRaised(result)
       /\ result.ret.is_primary_key_unique = C19_NoKeyRepeats
       /\ result.ret.number_of_records = Len(C19_Table.rows)
       /\ result.ret.number_of_columns = Len(C19_Table.cols)

\* C20: whenever check_record_count reports is_equal=True, the old and the new
\* table have the same number of rows
C20_EqualRecordCount ==
    (pc = "check_record_count" /\ ~IsRaised(result)
     /\ result.ret.record_count_changes.is_equal)
    => Len(old_df.rows) = Len(new_df.rows)

\* the keys of both tables that one row of old and one row of new have
C21_SharedRowKeys == {k \in SharedKeys : Len(RowsOf(old_df, k)) = 1 /\ Len(RowsOf(new_df, k)) = 1}

\* the old and the new row of key k hold, in a column of the comparison, a
\* missing value on one side and a present value on the other
C21_MissingAgainstPresent(k) ==
    \E c \in EffectiveCols : IsNaN(RowsOf(old_df, k)[1][c]) # IsNaN(RowsOf(new_df, k)[1][c])

\* the old and the new row of key k hold, in every column of the comparison,
\* two missing values or the same present value
C21_SameOrBothMissing(k) ==
    \A c \in EffectiveCols : ~Differs(RowsOf(old_df, k)[1][c], RowsOf(new_df, k)[1][c])

\* key k is listed in changed_records
C21_Listed(k) ==
    /\ ~result.ret.record_value_changes.is_equal
    /\ k \in Range(result.ret.record_value_changes.values.changed_records)

\* C21: in check_chg_in_values, for a shared primary-key row, two missing values
\* compare as equal, and a missing value against any present value, the text
\* "na" included, is a difference that lists the row in changed_records
C21_MissingValues ==
    (pc = "check_chg_in_values" /\ ~IsRaised(result))
    => \A k \in C21_SharedRowKeys :
          /\ C21_MissingAgainstPresent(k) => C21_Listed(k)
          /\ C21_SameOrBothMissing(k) => ~C21_Listed(k)

\* no present value of the primary-key column occurs in two rows of df
C22_UniqueKeys(df) ==
    \A i \in 1..Len(df.rows) : \A j \in 1..Len(df.rows) :
        (i # j /\ ~IsNaN(df.rows[i][primary_key]))
            => df.rows[i][primary_key] # df.rows[j][primary_key]

\* the tables that hold the rows of df in another order
C22_RowPermutations(df) ==
    {[df EXCEPT !.rows = [i \in 1..Len(df.rows) |-> df.rows[p[i]]]] :
        p \in Orderings(1..Len(df.rows))}

\* the tables that hold the columns of df in another order; the orders of a
\* table of more than MaxPermutedCols columns are not enumerated
C22_ColPermutations(df) ==
    IF Len(df.cols) > MaxPermutedCols THEN {df}
    ELSE {[df EXCEPT !.cols = cols] : cols \in Orderings(ColSet(df))}

\* two results of check_chg_in_values agree: both raise, or both give the same
\* is_equal, the same set of changed_records and the same list of changed_columns
C22_SameResult(r, q) ==
    /\ IsRaised(r) = IsRaised(q)
    /\ ~IsRaised(r) =>
        /\ r.ret.record_value_changes.is_equal = q.ret.record_value_changes.is_equal
        /\ ~r.ret.record_value_changes.is_equal =>
            /\ Range(r.ret.record_value_changes.values.changed_records)
                  = Range(q.ret.record_value_changes.values.changed_records)
            /\ r.ret.record_value_changes.values.changed_columns
                  = q.ret.record_value_changes.values.changed_columns

\* C22: for tables whose primary keys are unique, permuting the rows or the
\* columns of old or of new leaves is_equal, the set of changed_records and the
\* list of changed_columns of check_chg_in_values unchanged
C22_PermutationInvariant ==
    (/\ pc = "check_chg_in_values"
     /\ C22_UniqueKeys(old_df) /\ C22_UniqueKeys(new_df))
    => \A col_order \in ColOrders :
        /\ \A o \in C22_RowPermutations(old_df) \cup C22_ColPermutations(old_df) :
              C22_SameResult(result, CheckChgInValues(o, new_df, primary_key,
                                                      column_subset, col_order))
        /\ \A n \in C22_RowPermutations(new_df) \cup C22_ColPermutations(new_df) :
              C22_SameResult(result, CheckChgInValues(old_df, n, primary_key,
                                                      column_subset, col_order))

\* the two rows of old are in descending order of the key and the two rows of
\* new in ascending order, and one of the two rows has changed
C22_Witness ==
    /\ pc = "check_chg_in_values" /\ ~IsRaised(result)
    /\ Len(old_df.rows) = 2 /\ Len(new_df.rows) = 2
    /\ old_df.rows[1][primary_key] = Num(2) /\ old_df.rows[2][primary_key] = Num(1)
    /\ new_df.rows[1][primary_key] = Num(1) /\ new_df.rows[2][primary_key] = Num(2)
    /\ ~result.ret.record_value_changes.is_equal
    /\ Len(result.ret.record_value_changes.values.changed_records) = 1

====
